---- MODULE Spec2Model ----
(***************************************************************************)
(* A model of .github/release_helper.py: the script that diffs the icon    *)
(* manifest (appfilter.xml, or the svgs folder) between the working tree   *)
(* and the last release tag, decides whether a release is greenlit and     *)
(* predicts the next version.                                              *)
(*                                                                         *)
(* Python values are modelled as follows.  None is the string "None".      *)
(* A str whose characters matter (a tag name, an environment value, a      *)
(* file name) is a sequence of one-character strings.  A threshold is a    *)
(* tagged value [type |-> "int", val |-> n] or [type |-> "str", val |-> s] *)
(* because the script keeps whatever os.getenv() returned.  A list built   *)
(* from a set (the two lists from_appfilter returns) is modelled as the    *)
(* set: only its length is read afterwards.                                *)
(***************************************************************************)
EXTENDS Integers, Sequences, FiniteSets, TLC

VARIABLES
    pc,                     \* position of the script / of the function under study
    env,                    \* the process environment (os.getenv)
    LINK_THRESHOLD,         \* module globals, lines 11-13
    NEW_THRESHOLD,
    DAY_THRESHOLD,
    INCREMENT_TYPE,         \* line 21
    ICONS_CALCULATION_TYPE, \* line 22
    last_tag,               \* line 30-33: name of the last release tag
    today_day,              \* datetime.datetime.now().day
    head,                   \* repository HEAD: [detached, at]
    xml_now, xml_tag,       \* <item> records of appfilter.xml: working tree / at last_tag
    dir_now, dir_tag,       \* os.listdir(svgs): working tree / at last_tag
    result,                 \* line 307-310
    new_count, link_count,  \* len(result[0]), len(result[1]) as printed at 313-314
    greenlight, reason,     \* line 316 and the message is_greenlight printed
    next_version,           \* line 322
    exit_code,              \* line 336
    exc,                    \* the exception that ended the run, or "none"
    exc_at,                 \* the statement it was raised in (the traceback)
    original_ref,           \* git_checkout: local of the context manager
    body_head,              \* git_checkout: HEAD as the with-body saw it
    entry_head              \* history: HEAD when git_checkout was entered

vars == <<pc, env, LINK_THRESHOLD, NEW_THRESHOLD, DAY_THRESHOLD, INCREMENT_TYPE,
          ICONS_CALCULATION_TYPE, last_tag, today_day, head, xml_now, xml_tag, dir_now, dir_tag, result,
          new_count, link_count, greenlight, reason, next_version, exit_code, exc,
          exc_at, original_ref, body_head, entry_head>>

None == "None"

----------------------------------------------------------------------------
(* Bounds of the model *)

\* longest appfilter.xml (number of <item> elements) in either snapshot
MaxItems == 2
\* longest last_tag string tried against the version pattern
MaxVerLen == 7

(* Program constants *)

DefaultLinkThreshold == 20
DefaultNewThreshold == 100
DefaultDayThreshold == 1

----------------------------------------------------------------------------
(* Strings *)

Digits == {"0", "1", "2", "3", "4", "5", "6", "7", "8", "9"}

DigitVal(c) ==
    CASE c = "0" -> 0 [] c = "1" -> 1 [] c = "2" -> 2 [] c = "3" -> 3 [] c = "4" -> 4
      [] c = "5" -> 5 [] c = "6" -> 6 [] c = "7" -> 7 [] c = "8" -> 8 [] c = "9" -> 9

DigitChar(n) ==
    CASE n = 0 -> "0" [] n = 1 -> "1" [] n = 2 -> "2" [] n = 3 -> "3" [] n = 4 -> "4"
      [] n = 5 -> "5" [] n = 6 -> "6" [] n = 7 -> "7" [] n = 8 -> "8" [] n = 9 -> "9"

\* int(s) for a non-empty string of decimal digits
RECURSIVE StrToInt(_)
StrToInt(s) ==
    IF Len(s) = 0 THEN 0
    ELSE 10 * StrToInt(SubSeq(s, 1, Len(s) - 1)) + DigitVal(s[Len(s)])

\* str(n) / f"{n}" for n >= 0
RECURSIVE IntToStr(_)
IntToStr(n) ==
    IF n < 10 THEN <<DigitChar(n)>>
    ELSE Append(IntToStr(n \div 10), DigitChar(n % 10))

\* all strings over alphabet of length at most n
StringsUpTo(alphabet, n) == UNION { [1..k -> alphabet] : k \in 0..n }

----------------------------------------------------------------------------
(* Python operators on thresholds *)

PyInt(n) == [type |-> "int", val |-> n]
PyStr(s) == [type |-> "str", val |-> s]

\* `os.getenv(name) or default`: the environment string when set and non-empty.
\* The environment is a function from the names that are set to their strings.
GetenvOr(name, default) ==
    IF name \notin DOMAIN env \/ env[name] = <<>> THEN PyInt(default) ELSE PyStr(env[name])

\* `n != t` for an int n: an int never equals a str
PyNe(n, t) == IF t.type = "int" THEN n # t.val ELSE TRUE

\* `n < t` for an int n raises TypeError when t is a str
PyLtRaises(n, t) == t.type # "int"
PyLt(n, t) == n < t.val

\* the outcome of evaluating a call: a value, or the exception it raised
Ok(v) == [raised |-> "none", val |-> v]
Raise(e) == [raised |-> e, val |-> None]

\* str.lower() on the option words the environment may carry
Lower(w) ==
    CASE w = "SVGS" -> "svgs" [] w = "Svgs" -> "svgs"
      [] w = "MAJOR" -> "major" [] w = "Major" -> "major"
      [] w = "MINOR" -> "minor" [] w = "Minor" -> "minor"
      [] w = "PATCH" -> "patch" [] w = "Patch" -> "patch"
      [] OTHER -> w

\* `os.getenv(name) or default` for an option word
GetenvWordOr(name, default) ==
    IF name \notin DOMAIN env \/ env[name] = "" THEN default ELSE env[name]

\* `os.getenv(name) == word`
GetenvIs(name, word) == name \in DOMAIN env /\ env[name] = word

----------------------------------------------------------------------------
(* is_workflow_dispatch, lines 36-55 *)

is_workflow_dispatch ==
    \/ GetenvIs("GITHUB_EVENT_NAME", "workflow_dispatch")
    \/ GetenvIs("CI_PIPELINE_SOURCE", "web")

----------------------------------------------------------------------------
(* result[i] and len(result[i]) *)

\* from_appfilter returns a tuple of two lists, from_svg one flat list of names
TupleResult(new, linked) == [kind |-> "tuple", new |-> new, linked |-> linked]
ListResult(names) == [kind |-> "list", names |-> names]

\* len(result[i]), i = 0 or 1 (Python indices): IndexError on a list that short,
\* the length of the i-th file name on a flat list of names
LenOfItem(res, i) ==
    IF res.kind = "tuple"
    THEN Ok(Cardinality(IF i = 0 THEN res.new ELSE res.linked))
    ELSE IF Len(res.names) < i + 1 THEN Raise("IndexError")
    ELSE Ok(Len(res.names[i + 1]))

----------------------------------------------------------------------------
(* is_greenlight, lines 87-126 *)

Verdict(ret, why) == [raised |-> "none", val |-> ret, reason |-> why]
Thrown(e) == [raised |-> e, val |-> None, reason |-> None]

\* the new-icons check as it would be with <= for <
NewCheckFails_inclusive(n, new_threshold) == n <= new_threshold.val

\* line 114-118: the new-icons check
NewCheckFails(n, new_threshold) == PyLt(n, new_threshold)
\* line 119-123: the linked-icons check
LinkCheckFails(n, link_threshold) == PyLt(n, link_threshold)

is_greenlight(res, manually_triggered, day_threshold, link_threshold, new_threshold) ==
    IF manually_triggered THEN Verdict(TRUE, "manual")
    ELSE IF PyNe(today_day, day_threshold) THEN Verdict(FALSE, "day")
    ELSE LET n0 == LenOfItem(res, 0) IN
         IF n0.raised # "none" THEN Thrown(n0.raised)
         ELSE IF PyLtRaises(n0.val, new_threshold) THEN Thrown("TypeError")
         ELSE IF NewCheckFails(n0.val, new_threshold) THEN Verdict(FALSE, "new")
         ELSE LET n1 == LenOfItem(res, 1) IN
              IF n1.raised # "none" THEN Thrown(n1.raised)
              ELSE IF PyLtRaises(n1.val, link_threshold) THEN Thrown("TypeError")
              ELSE IF LinkCheckFails(n1.val, link_threshold) THEN Verdict(FALSE, "link")
              ELSE Verdict(TRUE, "ok")

----------------------------------------------------------------------------
(* next_release_predictor, lines 129-181 *)

\* index of the last character of the run of digits starting at s[i]; i - 1 if none
RECURSIVE DigitRunEnd(_, _)
DigitRunEnd(s, i) ==
    IF i <= Len(s) /\ s[i] \in Digits THEN DigitRunEnd(s, i + 1) ELSE i - 1

\* re.match(r"v(\d+)\.(\d+)\.(\d+)", s): anchored at the start of s only; each
\* \d+ is greedy and what follows it is no digit, so it takes the whole run
re_match(s) ==
    LET e1 == DigitRunEnd(s, 2)
        e2 == DigitRunEnd(s, e1 + 2)
        e3 == DigitRunEnd(s, e2 + 2)
    IN  IF /\ Len(s) >= 1 /\ s[1] = "v"
           /\ e1 >= 2
           /\ e1 + 1 <= Len(s) /\ s[e1 + 1] = "."
           /\ e2 >= e1 + 2
           /\ e2 + 1 <= Len(s) /\ s[e2 + 1] = "."
           /\ e3 >= e2 + 2
        THEN [matched |-> TRUE,
              groups |-> <<SubSeq(s, 2, e1), SubSeq(s, e1 + 2, e2), SubSeq(s, e2 + 2, e3)>>]
        ELSE [matched |-> FALSE, groups |-> <<>>]

\* line 162: `len(result[0]) < NEW_THRESHOLD or len(result[1]) < LINK_THRESHOLD`,
\* evaluated left to right; `or` does not read result[1] when the left side is true
BelowThreshold(res) ==
    LET n0 == LenOfItem(res, 0) IN
    IF n0.raised # "none" THEN n0
    ELSE IF PyLtRaises(n0.val, NEW_THRESHOLD) THEN Raise("TypeError")
    ELSE IF PyLt(n0.val, NEW_THRESHOLD) THEN Ok(TRUE)
    ELSE LET n1 == LenOfItem(res, 1) IN
         IF n1.raised # "none" THEN n1
         ELSE IF PyLtRaises(n1.val, LINK_THRESHOLD) THEN Raise("TypeError")
         ELSE Ok(PyLt(n1.val, LINK_THRESHOLD))

\* the decision as it would be if a valid increment type passed by the caller won
DecideIncrement_argument_wins(lowered, below) ==
    IF lowered \in {"major", "minor", "patch"} THEN lowered
    ELSE IF below THEN "patch" ELSE "minor"

\* line 162-165: the increment is decided from the counts alone; whatever the
\* caller passed as increment_type is overwritten here
DecideIncrement(lowered, below) == IF below THEN "patch" ELSE "minor"

\* line 167-179
Bump(major, minor, patch, increment_type) ==
    IF increment_type = "major" THEN Ok(<<major + 1, 0, 0>>)
    ELSE IF increment_type = "minor" THEN Ok(<<major, minor + 1, 0>>)
    ELSE IF increment_type = "patch" THEN Ok(<<major, minor, patch + 1>>)
    ELSE Raise("ValueError: Invalid increment type")

\* line 181
FormatVersion(v) ==
    <<"v">> \o IntToStr(v[1]) \o <<".">> \o IntToStr(v[2]) \o <<".">> \o IntToStr(v[3])

next_release_predictor(res, last_version, increment_type) ==
    LET lowered == Lower(increment_type)
        match == re_match(last_version)
    IN  IF ~match.matched THEN Raise("ValueError: Invalid version format")
        ELSE LET major == StrToInt(match.groups[1])
                 minor == StrToInt(match.groups[2])
                 patch == StrToInt(match.groups[3])
                 below == BelowThreshold(res)
             IN  IF below.raised # "none" THEN below
                 ELSE LET bumped == Bump(major, minor, patch,
                                         DecideIncrement(lowered, below.val))
                      IN  IF bumped.raised # "none" THEN bumped
                          ELSE Ok(FormatVersion(bumped.val))

----------------------------------------------------------------------------
(* git_checkout, lines 58-84 *)

Branches == {"main", "develop", "release"}
Tags == {<<"v", "2", ".", "1", "1", ".", "0">>, <<"v", "2", ".", "1", "2", ".", "0">>,
         <<"v", "0", ".", "9", ".", "9">>, <<"n", "i", "g", "h", "t", "l", "y">>}

OnBranch(b) == [detached |-> FALSE, at |-> b]
DetachedAt(c) == [detached |-> TRUE, at |-> c]

\* line 77-79.  The conditional picks repo.active_branch when HEAD is detached and
\* repo.head.ref otherwise; GitPython's Repo.active_branch (and HEAD.ref) raises
\* TypeError on a detached HEAD, and on a branch repo.head.ref.name is its name.
OriginalRef(h) == IF h.detached THEN Raise("TypeError") ELSE Ok(h.at)

\* repo.git.checkout(ref): a branch name puts HEAD on the branch, anything else
\* (a tag, a commit) detaches HEAD there
Checkout(ref) == IF ref \in Branches THEN OnBranch(ref) ELSE DetachedAt(ref)

----------------------------------------------------------------------------
(* new_icon_since.from_appfilter, lines 234-304 *)

\* line 275-277 / 278-280: set((icon["component"], icon["drawable"]) for icon in icons)
icons_set(icons) == { <<icons[i].component, icons[i].drawable>> : i \in DOMAIN icons }

\* line 283
new_icons_set(current_icons, previous_icons) ==
    icons_set(current_icons) \ icons_set(previous_icons)

\* line 285
previous_drawables_set(previous_icons) ==
    { previous_icons[i].drawable : i \in DOMAIN previous_icons }

\* linked_icons_set as it would be if "linked to a new component" were tested on
\* the component: linked only when the component itself is new
linked_icons_set_new_component(current_icons, previous_icons) ==
    { p \in new_icons_set(current_icons, previous_icons) :
        /\ p[2] \in previous_drawables_set(previous_icons)
        /\ p[1] \notin { previous_icons[i].component : i \in DOMAIN previous_icons } }

\* line 287-291
linked_icons_set(current_icons, previous_icons) ==
    { p \in new_icons_set(current_icons, previous_icons) :
        p[2] \in previous_drawables_set(previous_icons) }

\* true_new_icons_set as it would be if the else branch were lost and every added
\* pair were counted as new
true_new_icons_set_unfiltered(current_icons, previous_icons) ==
    new_icons_set(current_icons, previous_icons)

\* line 288-293
true_new_icons_set(current_icons, previous_icons) ==
    { p \in new_icons_set(current_icons, previous_icons) :
        p[2] \notin previous_drawables_set(previous_icons) }

\* line 295-302: each pair becomes {"component": ..., "drawable": ...}
AsDicts(pairs) == { [component |-> p[1], drawable |-> p[2]] : p \in pairs }

\* line 247-304 once both files are read.  elem.get() gives None for an absent
\* attribute; a tuple holding None is hashable and nothing here rejects it.
Classify(current_icons, previous_icons) ==
    TupleResult(AsDicts(true_new_icons_set(current_icons, previous_icons)),
                AsDicts(linked_icons_set(current_icons, previous_icons)))

----------------------------------------------------------------------------
(* new_icon_since.from_svg, lines 209-232 *)

\* line 232: list(current_icons - previous_icons): the names in whatever order
\* the set iterates, so every ordering is possible
Orderings(S) ==
    { f \in [1..Cardinality(S) -> S] : \A i, j \in 1..Cardinality(S) : f[i] = f[j] => i = j }

----------------------------------------------------------------------------
(* The script, lines 11-33 and 307-336, one action per statement group *)

Crash(e, where) ==
    /\ pc' = "crashed"
    /\ exc' = e
    /\ exc_at' = where
    /\ exit_code' = 1

\* lines 11-22: the module globals, read from the environment
Configure ==
    /\ pc = "start"
    /\ LINK_THRESHOLD' = GetenvOr("RELEASE_LINK_THRESHOLD", DefaultLinkThreshold)
    /\ NEW_THRESHOLD' = GetenvOr("RELEASE_NEW_THRESHOLD", DefaultNewThreshold)
    /\ DAY_THRESHOLD' = GetenvOr("RELEASE_DAY_THRESHOLD", DefaultDayThreshold)
    /\ INCREMENT_TYPE' = GetenvWordOr("INCREMENT", "default")
    /\ ICONS_CALCULATION_TYPE' = GetenvWordOr("ICONS_CALCULATION", "default")
    /\ pc' = "collect"
    /\ UNCHANGED <<env, last_tag, today_day, head, xml_now, xml_tag, dir_now, dir_tag,
                   result, new_count, link_count, greenlight, reason, next_version,
                   exit_code, exc, exc_at, original_ref, body_head, entry_head>>

\* line 309-310: from_appfilter(APPFILTER_PATH, last_tag).  The current file is
\* parsed, then the file at last_tag inside `with git_checkout(...)`, which
\* raises before the checkout on a detached HEAD and otherwise leaves HEAD
\* where it was.
FromAppfilter ==
    /\ pc = "collect"
    /\ Lower(ICONS_CALCULATION_TYPE) # "svgs"
    /\ LET orig == OriginalRef(head) IN
       IF orig.raised # "none"
       THEN /\ Crash(orig.raised, "collect")
            /\ UNCHANGED <<head, result>>
       ELSE /\ result' = Classify(xml_now, xml_tag)
            /\ head' = Checkout(orig.val)
            /\ pc' = "report"
            /\ UNCHANGED <<exc, exc_at, exit_code>>
    /\ entry_head' = head
    /\ UNCHANGED <<env, LINK_THRESHOLD, NEW_THRESHOLD, DAY_THRESHOLD, INCREMENT_TYPE,
                   ICONS_CALCULATION_TYPE, last_tag, today_day, xml_now, xml_tag,
                   dir_now, dir_tag, new_count, link_count, greenlight, reason,
                   next_version, original_ref, body_head>>

\* line 307-308: from_svg(SVG_PATH, last_tag)
FromSvg ==
    /\ pc = "collect"
    /\ Lower(ICONS_CALCULATION_TYPE) = "svgs"
    /\ LET orig == OriginalRef(head) IN
       IF orig.raised # "none"
       THEN /\ Crash(orig.raised, "collect")
            /\ UNCHANGED <<head, result>>
       ELSE /\ \E names \in Orderings(dir_now \ dir_tag) : result' = ListResult(names)
            /\ head' = Checkout(orig.val)
            /\ pc' = "report"
            /\ UNCHANGED <<exc, exc_at, exit_code>>
    /\ entry_head' = head
    /\ UNCHANGED <<env, LINK_THRESHOLD, NEW_THRESHOLD, DAY_THRESHOLD, INCREMENT_TYPE,
                   ICONS_CALCULATION_TYPE, last_tag, today_day, xml_now, xml_tag,
                   dir_now, dir_tag, new_count, link_count, greenlight, reason,
                   next_version, original_ref, body_head>>

\* line 313-314: the two counts the script reports
Report ==
    /\ pc = "report"
    /\ LET n0 == LenOfItem(result, 0)
           n1 == LenOfItem(result, 1)
       IN  IF n0.raised # "none"
           THEN /\ Crash(n0.raised, "report")
                /\ UNCHANGED <<new_count, link_count>>
           ELSE IF n1.raised # "none"
           THEN /\ Crash(n1.raised, "report")
                /\ new_count' = n0.val
                /\ UNCHANGED link_count
           ELSE /\ new_count' = n0.val
                /\ link_count' = n1.val
                /\ pc' = "greenlight"
                /\ UNCHANGED <<exc, exc_at, exit_code>>
    /\ UNCHANGED entry_head
    /\ UNCHANGED <<env, LINK_THRESHOLD, NEW_THRESHOLD, DAY_THRESHOLD, INCREMENT_TYPE,
                   ICONS_CALCULATION_TYPE, last_tag, today_day, head, xml_now, xml_tag,
                   dir_now, dir_tag, result, greenlight, reason, next_version,
                   original_ref, body_head>>

\* line 316-319
Greenlight ==
    /\ pc = "greenlight"
    /\ LET g == is_greenlight(result, is_workflow_dispatch, DAY_THRESHOLD,
                              LINK_THRESHOLD, NEW_THRESHOLD)
       IN  IF g.raised # "none"
           THEN /\ Crash(g.raised, "greenlight")
                /\ UNCHANGED <<greenlight, reason>>
           ELSE /\ greenlight' = g.val
                /\ reason' = g.reason
                /\ pc' = "predict"
                /\ UNCHANGED <<exc, exc_at, exit_code>>
    /\ UNCHANGED entry_head
    /\ UNCHANGED <<env, LINK_THRESHOLD, NEW_THRESHOLD, DAY_THRESHOLD, INCREMENT_TYPE,
                   ICONS_CALCULATION_TYPE, last_tag, today_day, head, xml_now, xml_tag,
                   dir_now, dir_tag, result, new_count, link_count, next_version,
                   original_ref, body_head>>

\* line 322-324
Predict ==
    /\ pc = "predict"
    /\ LET v == next_release_predictor(result, last_tag, INCREMENT_TYPE)
       IN  IF v.raised # "none"
           THEN /\ Crash(v.raised, "predict")
                /\ UNCHANGED next_version
           ELSE /\ next_version' = v.val
                /\ pc' = "output"
                /\ UNCHANGED <<exc, exc_at, exit_code>>
    /\ UNCHANGED entry_head
    /\ UNCHANGED <<env, LINK_THRESHOLD, NEW_THRESHOLD, DAY_THRESHOLD, INCREMENT_TYPE,
                   ICONS_CALCULATION_TYPE, last_tag, today_day, head, xml_now, xml_tag,
                   dir_now, dir_tag, result, new_count, link_count, greenlight, reason,
                   original_ref, body_head>>

\* line 327-336: the two values go to the output sink, the exit code follows greenlight
Output ==
    /\ pc = "output"
    /\ exit_code' = IF greenlight THEN 0 ELSE 1
    /\ pc' = "exited"
    /\ UNCHANGED entry_head
    /\ UNCHANGED <<env, LINK_THRESHOLD, NEW_THRESHOLD, DAY_THRESHOLD, INCREMENT_TYPE,
                   ICONS_CALCULATION_TYPE, last_tag, today_day, head, xml_now, xml_tag,
                   dir_now, dir_tag, result, new_count, link_count, greenlight, reason,
                   next_version, exc, exc_at, original_ref, body_head>>

----------------------------------------------------------------------------
(* git_checkout, lines 77-84, statement by statement *)

\* line 77-80: original_ref is computed, then ref is checked out
GitCheckoutEnter ==
    /\ pc = "co_enter"
    /\ LET orig == OriginalRef(head) IN
       IF orig.raised # "none"
       THEN /\ pc' = "co_raised"
            /\ exc' = orig.raised
            /\ exc_at' = "git_checkout"
            /\ UNCHANGED <<head, original_ref>>
       ELSE /\ original_ref' = orig.val
            /\ head' = Checkout(last_tag)
            /\ pc' = "co_body"
            /\ UNCHANGED <<exc, exc_at>>
    /\ entry_head' = head
    /\ UNCHANGED <<env, LINK_THRESHOLD, NEW_THRESHOLD, DAY_THRESHOLD, INCREMENT_TYPE,
                   ICONS_CALCULATION_TYPE, last_tag, today_day, xml_now, xml_tag,
                   dir_now, dir_tag, result, new_count, link_count, greenlight, reason,
                   next_version, exit_code, body_head>>

\* line 82: the with-body runs to its end
BodyReturns ==
    /\ pc = "co_body"
    /\ body_head' = head
    /\ pc' = "co_finally"
    /\ UNCHANGED entry_head
    /\ UNCHANGED <<env, LINK_THRESHOLD, NEW_THRESHOLD, DAY_THRESHOLD, INCREMENT_TYPE,
                   ICONS_CALCULATION_TYPE, last_tag, today_day, head, xml_now, xml_tag,
                   dir_now, dir_tag, result, new_count, link_count, greenlight, reason,
                   next_version, exit_code, exc, exc_at, original_ref>>

\* line 82: the with-body raises (a file that does not parse, or is missing, at ref)
BodyRaises ==
    /\ pc = "co_body"
    /\ body_head' = head
    /\ exc' = "ParseError"
    /\ exc_at' = "body"
    /\ pc' = "co_finally"
    /\ UNCHANGED entry_head
    /\ UNCHANGED <<env, LINK_THRESHOLD, NEW_THRESHOLD, DAY_THRESHOLD, INCREMENT_TYPE,
                   ICONS_CALCULATION_TYPE, last_tag, today_day, head, xml_now, xml_tag,
                   dir_now, dir_tag, result, new_count, link_count, greenlight, reason,
                   next_version, exit_code, original_ref>>

\* line 83-84: finally, original_ref is checked out; a pending exception goes on
GitCheckoutFinally ==
    /\ pc = "co_finally"
    /\ head' = Checkout(original_ref)
    /\ pc' = IF exc = "none" THEN "co_done" ELSE "co_raised"
    /\ UNCHANGED entry_head
    /\ UNCHANGED <<env, LINK_THRESHOLD, NEW_THRESHOLD, DAY_THRESHOLD, INCREMENT_TYPE,
                   ICONS_CALCULATION_TYPE, last_tag, today_day, xml_now, xml_tag,
                   dir_now, dir_tag, result, new_count, link_count, greenlight, reason,
                   next_version, exit_code, exc, exc_at, original_ref, body_head>>

----------------------------------------------------------------------------
(* Initial states *)

NoEnv == [n \in {} |-> n]
Setting(name, value) == [n \in {name} |-> value]
\* the environments with none or one of the given values for a name
MaybeSet(name, values) == {NoEnv} \cup { Setting(name, v) : v \in values }

V2_11_0 == <<"v", "2", ".", "1", "1", ".", "0">>
V2_12_0 == <<"v", "2", ".", "1", "2", ".", "0">>
V0_9_9 == <<"v", "0", ".", "9", ".", "9">>
Nightly == <<"n", "i", "g", "h", "t", "l", "y">>

\* the state the script starts in, but for the inputs each specification draws
Blank ==
    /\ result = None /\ new_count = None /\ link_count = None
    /\ greenlight = None /\ reason = None /\ next_version = None
    /\ exit_code = None /\ exc = "none" /\ exc_at = "none"
    /\ original_ref = None /\ body_head = None /\ entry_head = None

\* the globals of a run whose environment sets none of the options
DefaultGlobals ==
    /\ env = NoEnv
    /\ LINK_THRESHOLD = PyInt(DefaultLinkThreshold)
    /\ NEW_THRESHOLD = PyInt(DefaultNewThreshold)
    /\ DAY_THRESHOLD = PyInt(DefaultDayThreshold)
    /\ INCREMENT_TYPE = "default"
    /\ ICONS_CALCULATION_TYPE = "default"

UnsetGlobals ==
    /\ LINK_THRESHOLD = None /\ NEW_THRESHOLD = None /\ DAY_THRESHOLD = None
    /\ INCREMENT_TYPE = None /\ ICONS_CALCULATION_TYPE = None

NoManifest == xml_now = <<>> /\ xml_tag = <<>>
NoFolder == dir_now = {} /\ dir_tag = {}

----------------------------------------------------------------------------
(* SpecClassify: from_appfilter on every pair of small manifests *)

Components == {"A", "B"}
DrawableIds == {"d1", "d2"}

\* <item> elements: either attribute may be absent (None); the name is read but
\* takes no part in the comparison, one element differs from another in name only
ItemPool ==
    [component : Components \cup {None}, drawable : DrawableIds \cup {None}, name : {"n1"}]
      \cup {[component |-> "A", drawable |-> "d1", name |-> "n2"]}

Manifests == UNION { [1..k -> ItemPool] : k \in 0..MaxItems }

InitClassify ==
    /\ pc = "collect"
    /\ DefaultGlobals
    /\ last_tag = V2_12_0
    /\ today_day = 1
    /\ head \in {OnBranch("main"), DetachedAt(V2_12_0)}
    /\ xml_now \in Manifests
    /\ xml_tag \in Manifests
    /\ NoFolder
    /\ Blank

NextClassify == FromAppfilter

SpecClassify == InitClassify /\ [][NextClassify]_vars

(* The two snapshots as sets of (component, drawable) pairs, and the result *)
CurrentPairs == { <<xml_now[i].component, xml_now[i].drawable>> : i \in DOMAIN xml_now }
PreviousPairs == { <<xml_tag[i].component, xml_tag[i].drawable>> : i \in DOMAIN xml_tag }
Added == CurrentPairs \ PreviousPairs
NewIcons == { <<d.component, d.drawable>> : d \in result.new }
LinkedIcons == { <<d.component, d.drawable>> : d \in result.linked }
DrawableSeenBefore(d) == \E i \in DOMAIN xml_tag : xml_tag[i].drawable = d
Malformed(item) == item.component = None \/ item.drawable = None

\* C1: whenever from_appfilter returns, newIcons and linkedIcons are disjoint,
\* each is a subset of current - previous, and their union is current - previous.
C1_Partition ==
    pc = "report" =>
        /\ NewIcons \cap LinkedIcons = {}
        /\ NewIcons \subseteq Added
        /\ LinkedIcons \subseteq Added
        /\ NewIcons \cup LinkedIcons = Added

\* a run whose result has a new icon and a linked icon, a pair of previous being gone
C1_Witness ==
    /\ pc = "report"
    /\ NewIcons # {}
    /\ LinkedIcons # {}
    /\ PreviousPairs \ CurrentPairs # {}

\* C2: a pair of current - previous is linked exactly when its drawable occurs in
\* previous under some component, and new exactly when it occurs nowhere in previous.
C2_LinkedIffDrawableSeen ==
    pc = "report" =>
        \A p \in Added :
            /\ p \in LinkedIcons <=> DrawableSeenBefore(p[2])
            /\ p \in NewIcons <=> ~DrawableSeenBefore(p[2])

\* the drawable was kept and the component changed: previous = {(A, d1)},
\* current = {(A, d1), (B, d1)}, linked = {(B, d1)}, nothing new
C2_Witness ==
    /\ pc = "report"
    /\ PreviousPairs = {<<"A", "d1">>}
    /\ CurrentPairs = {<<"A", "d1">>, <<"B", "d1">>}
    /\ LinkedIcons = {<<"B", "d1">>}
    /\ NewIcons = {}

\* C6: a record of either snapshot without its component or drawable aborts the
\* classification and no result is produced.
C6_MalformedAborts ==
    (/\ pc # "collect"
     /\ \/ \E i \in DOMAIN xml_now : Malformed(xml_now[i])
        \/ \E i \in DOMAIN xml_tag : Malformed(xml_tag[i]))
    => pc = "crashed"

\* what the code does instead: an absent attribute is read as None and the record
\* is compared and classified like any other; from_appfilter returns on every
\* HEAD that is on a branch, whatever the records
MalformedClassified ==
    /\ (pc # "collect" /\ ~head.detached) => pc = "report"
    /\ pc = "report" =>
          \A i \in DOMAIN xml_now :
              LET p == <<xml_now[i].component, xml_now[i].drawable>> IN
              (Malformed(xml_now[i]) /\ p \notin PreviousPairs)
                  => p \in NewIcons \cup LinkedIcons

----------------------------------------------------------------------------
(* SpecRelease: the whole script on appfilter.xml, from the environment to exit *)

App(i) == <<"app", i>>
Icon(i) == <<"ic", i>>
Item(c, d) == [component |-> c, drawable |-> d, name |-> "n"]

\* the manifest at the last release: one icon
ReleasedManifest == <<Item(App(0), Icon(0))>>

\* the manifest now: the released icon, n icons with artwork of their own and
\* m further components wired to the released artwork
GrownManifest(n, m) ==
    [i \in 1..(1 + n + m) |->
        IF i = 1 THEN Item(App(0), Icon(0))
        ELSE IF i <= 1 + n THEN Item(App(i - 1), Icon(i - 1))
        ELSE Item(App(i - 1), Icon(0))]

NewSizes == {5, 100, 150}
LinkSizes == {19, 25}

Envs ==
    { a @@ b @@ c @@ d @@ e @@ f :
        a \in MaybeSet("GITHUB_EVENT_NAME", {"schedule", "workflow_dispatch"}),
        b \in MaybeSet("CI_PIPELINE_SOURCE", {"web"}),
        c \in MaybeSet("RELEASE_DAY_THRESHOLD", {<<"2">>}),
        d \in MaybeSet("RELEASE_LINK_THRESHOLD", {<<"2", "5">>}),
        e \in MaybeSet("RELEASE_NEW_THRESHOLD", {<<>>, <<"1", "0", "0">>}),
        f \in MaybeSet("INCREMENT", {"MAJOR", "bogus"}) }

InitRelease ==
    /\ pc = "start"
    /\ env \in Envs
    /\ UnsetGlobals
    /\ last_tag \in {V2_12_0, V0_9_9, Nightly}
    /\ today_day \in {1, 2}
    /\ head \in {OnBranch("main"), DetachedAt(V2_12_0)}
    /\ xml_tag = ReleasedManifest
    /\ \E n \in NewSizes, m \in LinkSizes : xml_now = GrownManifest(n, m)
    /\ NoFolder
    /\ Blank

NextRelease ==
    \/ Configure
    \/ FromAppfilter
    \/ Report
    \/ Greenlight
    \/ Predict
    \/ Output

SpecRelease == InitRelease /\ [][NextRelease]_vars

(* What the environment asks for, as the integers the configuration is meant to hold *)
Supplied(name) == name \in DOMAIN env /\ env[name] # <<>>
IntendedLink ==
    IF Supplied("RELEASE_LINK_THRESHOLD") THEN StrToInt(env["RELEASE_LINK_THRESHOLD"])
    ELSE DefaultLinkThreshold
IntendedNew ==
    IF Supplied("RELEASE_NEW_THRESHOLD") THEN StrToInt(env["RELEASE_NEW_THRESHOLD"])
    ELSE DefaultNewThreshold
IntendedDay ==
    IF Supplied("RELEASE_DAY_THRESHOLD") THEN StrToInt(env["RELEASE_DAY_THRESHOLD"])
    ELSE DefaultDayThreshold
ThresholdsFromDefaults ==
    /\ ~Supplied("RELEASE_LINK_THRESHOLD")
    /\ ~Supplied("RELEASE_NEW_THRESHOLD")
    /\ ~Supplied("RELEASE_DAY_THRESHOLD")

ManualOverride ==
    \/ ("GITHUB_EVENT_NAME" \in DOMAIN env /\ env["GITHUB_EVENT_NAME"] = "workflow_dispatch")
    \/ ("CI_PIPELINE_SOURCE" \in DOMAIN env /\ env["CI_PIPELINE_SOURCE"] = "web")

\* the release tags of the model that are exactly v<major>.<minor>.<patch>
WellFormedTag == last_tag \in {V2_11_0, V2_12_0, V0_9_9}
TagVersion ==
    CASE last_tag = V2_11_0 -> <<2, 11, 0>>
      [] last_tag = V2_12_0 -> <<2, 12, 0>>
      [] last_tag = V0_9_9 -> <<0, 9, 9>>

GreenlightDecided ==
    \/ pc \in {"predict", "output", "exited"}
    \/ pc = "crashed" /\ exc_at \in {"greenlight", "predict"}
PredictorCalled ==
    \/ pc \in {"output", "exited"}
    \/ pc = "crashed" /\ exc_at = "predict"

\* C7: an increment type passed explicitly that is none of major, minor, patch
\* makes the predictor fail with the invalid-increment-type error.  Stated where
\* nothing else can fail: the tag is well formed and the thresholds are integers.
C7_InvalidIncrementRejected ==
    (/\ PredictorCalled
     /\ WellFormedTag
     /\ ThresholdsFromDefaults
     /\ "INCREMENT" \in DOMAIN env
     /\ Lower(env["INCREMENT"]) \notin {"major", "minor", "patch"})
    => (pc = "crashed" /\ exc = "ValueError: Invalid increment type")

\* C8: once the globals are set, each threshold is the integer the environment
\* supplied, or its default 1 / 20 / 100; so a run that is not manual, on the
\* supplied release day, with both counts at or above the supplied thresholds,
\* ends greenlit with a MINOR bump.
C8_ThresholdsAreIntegers ==
    /\ pc # "start" =>
          /\ LINK_THRESHOLD.type = "int" /\ LINK_THRESHOLD.val = IntendedLink
          /\ NEW_THRESHOLD.type = "int" /\ NEW_THRESHOLD.val = IntendedNew
          /\ DAY_THRESHOLD.type = "int" /\ DAY_THRESHOLD.val = IntendedDay
    /\ (/\ pc \in {"exited", "crashed"}
        /\ exc_at \notin {"collect", "report"}
        /\ WellFormedTag
        /\ ~ManualOverride
        /\ Supplied("RELEASE_DAY_THRESHOLD") /\ today_day = IntendedDay
        /\ new_count >= IntendedNew /\ link_count >= IntendedLink)
       => /\ pc = "exited"
          /\ greenlight = TRUE
          /\ next_version = FormatVersion(<<TagVersion[1], TagVersion[2] + 1, 0>>)

----------------------------------------------------------------------------
(* SpecDecide: is_greenlight and next_release_predictor on integer thresholds.    *)
(* The thresholds are drawn as the integers a caller may pass (is_greenlight's    *)
(* parameters, the predictor's two globals), the counts stand on both sides of    *)
(* them, and the increment type is whatever the environment carries.              *)

DecideEnvs ==
    { a @@ b @@ f :
        a \in MaybeSet("GITHUB_EVENT_NAME", {"schedule", "workflow_dispatch"}),
        b \in MaybeSet("CI_PIPELINE_SOURCE", {"web"}),
        f \in MaybeSet("INCREMENT", {"MAJOR", "minor", "bogus"}) }

DecideNewSizes == {0, 5, 100, 150}
DecideLinkSizes == {0, 20, 25}

InitDecide ==
    /\ pc = "greenlight"
    /\ env \in DecideEnvs
    /\ LINK_THRESHOLD \in {PyInt(DefaultLinkThreshold), PyInt(25)}
    /\ NEW_THRESHOLD \in {PyInt(DefaultNewThreshold), PyInt(5)}
    /\ DAY_THRESHOLD \in {PyInt(DefaultDayThreshold), PyInt(2)}
    /\ INCREMENT_TYPE = GetenvWordOr("INCREMENT", "default")
    /\ ICONS_CALCULATION_TYPE = "default"
    /\ last_tag \in {V2_11_0, V2_12_0, V0_9_9, Nightly}
    /\ today_day \in {1, 2}
    /\ head = OnBranch("main")
    /\ entry_head = head
    /\ xml_tag = ReleasedManifest
    /\ \E n \in DecideNewSizes, m \in DecideLinkSizes :
          /\ xml_now = GrownManifest(n, m)
          /\ new_count = n
          /\ link_count = m
    /\ NoFolder
    /\ result = Classify(xml_now, xml_tag)
    /\ greenlight = None /\ reason = None
    /\ next_version = None /\ exit_code = None
    /\ exc = "none" /\ exc_at = "none"
    /\ original_ref = None /\ body_head = None

NextDecide ==
    \/ Greenlight
    \/ Predict
    \/ Output

SpecDecide == InitDecide /\ [][NextDecide]_vars

\* the successor tags, written out
PatchSuccessor ==
    CASE last_tag = V2_11_0 -> <<"v", "2", ".", "1", "1", ".", "1">>
      [] last_tag = V2_12_0 -> <<"v", "2", ".", "1", "2", ".", "1">>
      [] last_tag = V0_9_9 -> <<"v", "0", ".", "9", ".", "1", "0">>
MinorSuccessor ==
    CASE last_tag = V2_11_0 -> <<"v", "2", ".", "1", "2", ".", "0">>
      [] last_tag = V2_12_0 -> <<"v", "2", ".", "1", "3", ".", "0">>
      [] last_tag = V0_9_9 -> <<"v", "0", ".", "1", "0", ".", "0">>

C4_PriorityChain ==
    GreenlightDecided =>
        /\ ~(pc = "crashed" /\ exc_at = "greenlight")
        /\ <<greenlight, reason>> =
              IF ManualOverride THEN <<TRUE, "manual">>
              ELSE IF today_day # DAY_THRESHOLD.val THEN <<FALSE, "day">>
              ELSE IF new_count < NEW_THRESHOLD.val THEN <<FALSE, "new">>
              ELSE IF link_count < LINK_THRESHOLD.val THEN <<FALSE, "link">>
              ELSE <<TRUE, "ok">>

\* a manual run off the release day with both counts zero is greenlit
C4_Witness ==
    /\ pc = "predict"
    /\ ManualOverride
    /\ today_day # DAY_THRESHOLD.val
    /\ new_count = 0 /\ link_count = 0
    /\ greenlight = TRUE

\* off the release day with both thresholds met the run is not greenlit
C4_WitnessOffDay ==
    /\ pc = "predict"
    /\ ~ManualOverride
    /\ today_day # DAY_THRESHOLD.val
    /\ new_count >= NEW_THRESHOLD.val /\ link_count >= LINK_THRESHOLD.val
    /\ greenlight = FALSE /\ reason = "day"

----------------------------------------------------------------------------
(* SpecVersion: next_release_predictor on every short tag name *)

VersionAlphabet == {"v", "0", "9", ".", "-"}

InitVersion ==
    /\ pc = "predict"
    /\ DefaultGlobals
    /\ last_tag \in StringsUpTo(VersionAlphabet, MaxVerLen)
    /\ today_day = 2
    /\ head = OnBranch("main")
    /\ entry_head = head
    /\ xml_now = ReleasedManifest
    /\ xml_tag = ReleasedManifest
    /\ NoFolder
    /\ result = Classify(xml_now, xml_tag)
    /\ new_count = 0 /\ link_count = 0
    /\ greenlight = FALSE /\ reason = "day"
    /\ next_version = None /\ exit_code = None
    /\ exc = "none" /\ exc_at = "none"
    /\ original_ref = None /\ body_head = None

NextVersion ==
    \/ Predict
    \/ Output

SpecVersion == InitVersion /\ [][NextVersion]_vars

AllDigits(s, from, to) == from <= to /\ \A k \in from..to : s[k] \in Digits

\* s is v<digits>.<digits>.<digits> and nothing else
ExactVersion(s) ==
    /\ Len(s) >= 1 /\ s[1] = "v"
    /\ \E i, j \in 1..Len(s) :
          /\ i < j /\ s[i] = "." /\ s[j] = "."
          /\ AllDigits(s, 2, i - 1)
          /\ AllDigits(s, i + 1, j - 1)
          /\ AllDigits(s, j + 1, Len(s))

\* C5: the predictor fails with the invalid-version-format error, and returns no
\* version, for every last version that is not exactly v<digits>.<digits>.<digits>.
C5_StrictFormat ==
    (PredictorCalled /\ ~ExactVersion(last_tag)) =>
        (pc = "crashed" /\ exc = "ValueError: Invalid version format")

\* what the code does instead: it fails exactly when no prefix of the tag is a version
C5_PrefixFormat ==
    PredictorCalled =>
        ((pc = "crashed" /\ exc = "ValueError: Invalid version format")
            <=> ~\E k \in 0..Len(last_tag) : ExactVersion(SubSeq(last_tag, 1, k)))

----------------------------------------------------------------------------
(* SpecCheckout: git_checkout(repo, last_tag) from every HEAD *)

Heads ==
    { OnBranch(b) : b \in Branches }
      \cup { DetachedAt(t) : t \in Tags \cup {<<"c", "0", "f", "f", "e", "e">>} }

InitCheckout ==
    /\ pc = "co_enter"
    /\ DefaultGlobals
    /\ last_tag \in Tags
    /\ today_day = 1
    /\ head \in Heads
    /\ NoManifest
    /\ NoFolder
    /\ Blank

NextCheckout ==
    \/ GitCheckoutEnter
    \/ BodyReturns
    \/ BodyRaises
    \/ GitCheckoutFinally

SpecCheckout == InitCheckout /\ [][NextCheckout]_vars

\* C9: from any HEAD, on a branch or detached, the with-body runs with ref checked
\* out, and once the block is left, normally or by an exception of the body, HEAD
\* is where it was at entry.
C9_BodyRunsAndHeadRestored ==
    pc \in {"co_done", "co_raised"} =>
        /\ exc_at # "git_checkout"
        /\ body_head = DetachedAt(last_tag)
        /\ head = entry_head

\* what holds from a HEAD on a branch
C9_FromBranch ==
    (pc \in {"co_done", "co_raised"} /\ ~entry_head.detached) =>
        /\ exc_at # "git_checkout"
        /\ body_head = DetachedAt(last_tag)
        /\ head = entry_head

----------------------------------------------------------------------------
(* SpecSvg: the whole script with ICONS_CALCULATION=svgs *)

Files == {<<"a", ".", "s", "v", "g">>, <<"b", "b", ".", "s", "v", "g">>,
          <<"c", "c", "c", ".", "s", "v", "g">>, <<"x">>}

InitSvg ==
    /\ pc = "start"
    /\ env \in { Setting("ICONS_CALCULATION", w) : w \in {"svgs", "SVGS"} }
    /\ UnsetGlobals
    /\ last_tag = V2_12_0
    /\ today_day \in {1, 2}
    /\ head \in {OnBranch("main"), DetachedAt(V2_12_0)}
    /\ NoManifest
    /\ dir_now \in SUBSET Files
    /\ dir_tag \in SUBSET Files
    /\ Blank

NextSvg ==
    \/ Configure
    \/ FromSvg
    \/ Report
    \/ Greenlight
    \/ Predict
    \/ Output

SpecSvg == InitSvg /\ [][NextSvg]_vars

CountsReported ==
    \/ pc \in {"greenlight", "predict", "output", "exited"}
    \/ pc = "crashed" /\ exc_at \in {"report", "greenlight", "predict"}

\* C10: in svgs mode the new-icon count the script reports and passes on is the
\* number of folder entries present now and absent at the last release tag.
C10_SvgCountIsSetDifference ==
    CountsReported =>
        /\ ~(pc = "crashed" /\ exc_at = "report")
        /\ new_count = Cardinality(dir_now \ dir_tag)

====
